---- MODULE Spec2Model ----
(***************************************************************************)
(* A model of stalkerlib.go: the StalkerClient of a Stalker-portal IPTV    *)
(* client.  The client's fields are the state; every public method is one  *)
(* action that models the whole call.  What the HTTP transport hands back  *)
(* from client.Do (a transport error, or a response with its status, its   *)
(* Content-Encoding header and its body) is the environment's choice and   *)
(* is drawn from small sets.  The variable last records the most recent    *)
(* call: its arguments, the state on entry, the requests it handed to the  *)
(* transport, what came back, and what it returned.  A second             *)
(* specification, SpecConc, runs two GetChannels calls on one client as    *)
(* two goroutines, step by step; the variable conc holds their progress.   *)
(***************************************************************************)
EXTENDS Integers, Sequences, FiniteSets, TLC

VARIABLES PortalURL, MAC, Timezone, Token, Config, last, conc

vars == <<PortalURL, MAC, Timezone, Token, Config, last, conc>>

(***************************************************************************)
(* Bounds of the model.                                                    *)
(***************************************************************************)
\* longest js.channels array the server delivers
MaxChannels == 2
\* longest js.programs array the server delivers
MaxPrograms == 2

(***************************************************************************)
(* int64, as four 16-bit limbs, least significant first.  Go's int64       *)
(* arithmetic wraps modulo 2^64; the limbs keep that width.                *)
(***************************************************************************)
LimbBase == 2^16

Add64(a, b) ==
  LET s1 == a[1] + b[1]
      s2 == a[2] + b[2] + (s1 \div LimbBase)
      s3 == a[3] + b[3] + (s2 \div LimbBase)
      s4 == a[4] + b[4] + (s3 \div LimbBase)
  IN  <<s1 % LimbBase, s2 % LimbBase, s3 % LimbBase, s4 % LimbBase>>

Zero64 == <<0, 0, 0, 0>>

\* 62135596800: seconds from year 1 to 1970, the offset time.Unix adds
unixToInternal == <<63232, 30609, 14, 0>>
\* -62135596800 in two's complement, the offset Time.Unix adds back
internalToUnix == <<2304, 34926, 65521, 65535>>

\* the epochs the server delivers: 1700000000, 1700003600, MaxInt64, MinInt64
Epoch1700000000 == <<61696, 25939, 0, 0>>
Epoch1700003600 == <<65296, 25939, 0, 0>>
EpochMaxInt64 == <<65535, 65535, 65535, 32767>>
EpochMinInt64 == <<0, 0, 0, 32768>>

(***************************************************************************)
(* JSON values as they arrive on the wire, and encoding/json's decoding of *)
(* them into Go fields.  A field of the wrong JSON type makes Decode       *)
(* return an error; an absent field leaves the Go zero value.              *)
(***************************************************************************)
JStr(s) == [t |-> "string", s |-> s, n |-> Zero64]
JNum(n) == [t |-> "number", s |-> "", n |-> n]
\* a JSON number outside the int64 range
JBig == [t |-> "bignum", s |-> "", n |-> Zero64]
JAbsent == [t |-> "absent", s |-> "", n |-> Zero64]

\* a JSON array, or the key missing
JArr(items) == [t |-> "array", items |-> items]
JNoArr == [t |-> "absent", items |-> <<>>]

DecodeString(v) ==
  [ok |-> v.t \in {"string", "absent"}, val |-> IF v.t = "string" THEN v.s ELSE ""]

DecodeInt64(v) ==
  [ok |-> v.t \in {"number", "absent"}, val |-> IF v.t = "number" THEN v.n ELSE Zero64]

\* the body's JSON text: not JSON at all, or {"js": {...}} with any of the
\* four action payloads
Garbage ==
  [kind |-> "garbage", token |-> JAbsent, cmd |-> JAbsent,
   channels |-> JNoArr, programs |-> JNoArr]
Envelope(token, cmd, channels, programs) ==
  [kind |-> "object", token |-> token, cmd |-> cmd,
   channels |-> channels, programs |-> programs]

\* DecodeHandshake with the token field under a key the portal does not send
DecodeHandshakeWrongKey(json) ==
  [ok |-> json.kind = "object", Token |-> ""]

\* json.NewDecoder(resp.Body).Decode(&HandshakeResponse)
DecodeHandshake(json) ==
  LET tok == DecodeString(json.token)
  IN  [ok |-> json.kind = "object" /\ tok.ok, Token |-> tok.val]

\* json.NewDecoder(resp.Body).Decode(&CreateLinkResponse)
DecodeCreateLink(json) ==
  LET cmd == DecodeString(json.cmd)
  IN  [ok |-> json.kind = "object" /\ cmd.ok, Cmd |-> cmd.val]

\* DecodeChannel with Logo read from the "cmd" key
DecodeChannelLogoFromCmd(o) ==
  LET id == DecodeString(o.id)
      name == DecodeString(o.name)
      cmd == DecodeString(o.cmd)
  IN  [ok |-> id.ok /\ name.ok /\ cmd.ok,
       val |-> [ID |-> id.val, Name |-> name.val, Cmd |-> cmd.val, Logo |-> cmd.val]]

\* one element of js.channels into a Channel
DecodeChannel(o) ==
  LET id == DecodeString(o.id)
      name == DecodeString(o.name)
      cmd == DecodeString(o.cmd)
      logo == DecodeString(o.logo)
  IN  [ok |-> id.ok /\ name.ok /\ cmd.ok /\ logo.ok,
       val |-> [ID |-> id.val, Name |-> name.val, Cmd |-> cmd.val, Logo |-> logo.val]]

\* json.NewDecoder(reader).Decode(&ChannelListResponse)
DecodeChannelList(json) ==
  LET items == json.channels.items
  IN  [ok |-> /\ json.kind = "object"
              /\ \A i \in 1..Len(items) : DecodeChannel(items[i]).ok,
       Channels |-> [i \in 1..Len(items) |-> DecodeChannel(items[i]).val]]

\* one element of js.programs into an EPGProgram
DecodeProgram(o) ==
  LET ch == DecodeString(o.ch_id)
      name == DecodeString(o.name)
      start == DecodeInt64(o.start_timestamp)
      stop == DecodeInt64(o.stop_timestamp)
      descr == DecodeString(o.descr)
      cat == DecodeString(o.category)
  IN  [ok |-> ch.ok /\ name.ok /\ start.ok /\ stop.ok /\ descr.ok /\ cat.ok,
       val |-> [ChannelID |-> ch.val, Name |-> name.val, Start |-> start.val,
                Stop |-> stop.val, Desc |-> descr.val, Category |-> cat.val]]

\* json.NewDecoder(resp.Body).Decode(&EPGResponse)
DecodeEPG(json) ==
  LET items == json.programs.items
  IN  [ok |-> /\ json.kind = "object"
              /\ \A i \in 1..Len(items) : DecodeProgram(items[i]).ok,
       Programs |-> [i \in 1..Len(items) |-> DecodeProgram(items[i]).val]]

(***************************************************************************)
(* The transport.  client.Do returns an error, or a response.  A response  *)
(* is what the method sees: the status, the Content-Encoding header and    *)
(* the body as the transport hands them over (http.DefaultTransport may be *)
(* replaced, or have DisableCompression set, so a gzip body can reach any  *)
(* method).  A body is JSON text, gzip-compressed (gz) or not; reading     *)
(* JSON from compressed bytes fails, and so does gzip.NewReader on bytes   *)
(* that are not gzip.                                                      *)
(***************************************************************************)
TransportError ==
  [err |-> TRUE, status |-> 0, contentEncoding |-> "", gz |-> FALSE, json |-> Garbage]
Response(status, enc, gz, json) ==
  [err |-> FALSE, status |-> status, contentEncoding |-> enc, gz |-> gz, json |-> json]

\* what a reader of the body gets: the body as it is, or inflated first
\* (inflated = TRUE)
ReadBody(resp, inflated) ==
  [gzipErr |-> inflated /\ ~resp.gz,
   json |-> IF inflated = resp.gz THEN resp.json ELSE Garbage]

(***************************************************************************)
(* Request Builder: the requests the methods hand to client.Do.            *)
(***************************************************************************)
\* the portal base URLs a caller may construct the client with; the second
\* one does not parse as a URL, so http.NewRequest returns an error for it
PortalURLs == {"http://portal", "http://por tal"}
MACs == {"00:1A:79:18:05:75"}
Timezones == {"UTC", "America/New_York", "Mars/Olympus"}

\* url.Parse inside http.NewRequest
URLParses(u) == u = "http://portal"

\* no Authorization header
NoAuth == <<>>
Bearer(tok) == <<"Bearer", tok>>

Cookie(c) == <<"mac", c.MAC, "stb_lang", "en", "timezone", c.Timezone>>

Request(action, auth, gzip, acceptEncoding, userAgent, arg, cookie) ==
  [action |-> action, auth |-> auth, gzip |-> gzip,
   acceptEncoding |-> acceptEncoding, userAgent |-> userAgent,
   arg |-> arg, cookie |-> cookie]

HandshakeRequest(c) ==
  Request("handshake", NoAuth, FALSE, FALSE, TRUE, "", Cookie(c))

ProbeGzipRequest(c) ==
  Request("get_all_channels", NoAuth, TRUE, TRUE, FALSE, "", Cookie(c))

\* params is reused from the gzip trial, so gzip=true is still in the query
ProbeCreateLinkRequest(c) ==
  Request("create_link", NoAuth, TRUE, FALSE, FALSE, "test_channel", Cookie(c))

ChannelsRequest(c) ==
  Request("get_all_channels", Bearer(c.Token), c.Config.SupportsGzip,
          c.Config.SupportsGzip, FALSE, "", Cookie(c))

CreateLinkRequest(c, channelCmd) ==
  Request("create_link", Bearer(c.Token), FALSE, FALSE, TRUE, channelCmd, Cookie(c))

EPGRequest(c, channelID) ==
  Request("get_epg", Bearer(c.Token), FALSE, FALSE, FALSE, channelID, Cookie(c))

(***************************************************************************)
(* The result of a call: the client after it, how it ended ("ok": a nil    *)
(* error, "error": a non-nil error, "panic"), the requests handed to the   *)
(* transport in order, what the transport returned for each, and the       *)
(* returned value (inflated: whether the body went through a gzip reader;  *)
(* doc: the XMLTV value that ConvertEPGToXMLTV marshals).                  *)
(***************************************************************************)
Result(c, outcome, err, reqs, resps) ==
  [c |-> c, outcome |-> outcome, err |-> err, reqs |-> reqs, resps |-> resps,
   inflated |-> FALSE, channels |-> <<>>, url |-> "", programs |-> <<>>,
   doc |-> [Channels |-> <<>>, Programs |-> <<>>]]

\* Fail with the session dropped on every error
FailResettingToken(c, err, reqs, resps) ==
  Result([c EXCEPT !.Token = ""], "error", err, reqs, resps)

Ok(c, reqs, resps) == Result(c, "ok", "", reqs, resps)
Fail(c, err, reqs, resps) == Result(c, "error", err, reqs, resps)

(***************************************************************************)
(* Session Manager.                                                        *)
(***************************************************************************)
\* func (c *StalkerClient) Authenticate() error; hs is what client.Do
\* returns for the handshake request
Authenticate(c, hs) ==
  IF ~URLParses(c.PortalURL)
    THEN Fail(c, "failed to create handshake request", <<>>, <<>>)
  ELSE LET req == HandshakeRequest(c) IN
    IF hs.err
      THEN Fail(c, "handshake request failed", <<req>>, <<hs>>)
    ELSE LET response == DecodeHandshake(ReadBody(hs, FALSE).json) IN
      IF ~response.ok
        THEN Fail(c, "failed to parse handshake response", <<req>>, <<hs>>)
      ELSE Ok([c EXCEPT !.Token = response.Token], <<req>>, <<hs>>)

\* NeedsAuthenticate that handshakes before every request
NeedsAuthenticateAlways(c) == TRUE

\* "Authenticate if no token"
NeedsAuthenticate(c) == c.Token = ""

\* the "if c.Token == "" { if err := c.Authenticate() ... }" prologue of
\* GetChannels, GetPlaybackURL and GetEPG
AuthenticateIfNoToken(c, hs) ==
  IF NeedsAuthenticate(c) THEN Authenticate(c, hs) ELSE Ok(c, <<>>, <<>>)

(***************************************************************************)
(* Capability Prober.                                                      *)
(***************************************************************************)
\* ProbeSupportsGzip that flips the flag on every gzip answer
ProbeSupportsGzipToggle(prior, g) ==
  IF ~g.err /\ g.contentEncoding = "gzip" THEN ~prior ELSE prior

\* ProbeSupportsGzip that assigns the trial's verdict, dropping the prior
\* value when the transport fails
ProbeSupportsGzipAssign(prior, g) ==
  ~g.err /\ g.contentEncoding = "gzip"

\* lines 162-164: the flag after the gzip trial, whose outcome is g
ProbeSupportsGzip(prior, g) ==
  IF ~g.err /\ g.contentEncoding = "gzip" THEN TRUE ELSE prior

\* ProbeRequiresCreateLink that assigns the trial's verdict
ProbeRequiresCreateLinkAssign(prior, l) ==
  /\ ~l.err
  /\ l.status = 200
  /\ DecodeCreateLink(ReadBody(l, FALSE).json).ok
  /\ DecodeCreateLink(ReadBody(l, FALSE).json).Cmd # ""

\* lines 175-180: the flag after the create_link trial, whose outcome is l
ProbeRequiresCreateLink(prior, l) ==
  IF ~l.err /\ l.status = 200
    THEN LET response == DecodeCreateLink(ReadBody(l, FALSE).json) IN
         IF response.ok /\ response.Cmd # "" THEN TRUE ELSE prior
    ELSE prior

\* ProbeServer that starts a new session: it drops the token
ProbeServerDroppingToken(c, g, l) ==
  IF ~URLParses(c.PortalURL)
    THEN Result(c, "panic", "nil pointer dereference", <<>>, <<>>)
  ELSE Ok([c EXCEPT !.Token = "",
                    !.Config.SupportsGzip = ProbeSupportsGzip(@, g),
                    !.Config.RequiresCreateLink = ProbeRequiresCreateLink(@, l)],
          <<ProbeGzipRequest(c), ProbeCreateLinkRequest(c)>>, <<g, l>>)

\* func (c *StalkerClient) ProbeServer() error.  The error of http.NewRequest
\* is dropped; with a portal URL that does not parse, req is nil and
\* req.Header.Set panics before anything is sent or written
ProbeServer(c, g, l) ==
  IF ~URLParses(c.PortalURL)
    THEN Result(c, "panic", "nil pointer dereference", <<>>, <<>>)
  ELSE LET c1 == [c EXCEPT !.Config.SupportsGzip = ProbeSupportsGzip(@, g)]
           c2 == [c1 EXCEPT !.Config.RequiresCreateLink =
                               ProbeRequiresCreateLink(@, l)]
       IN  Ok(c2, <<ProbeGzipRequest(c), ProbeCreateLinkRequest(c1)>>, <<g, l>>)

(***************************************************************************)
(* Catalog Client.                                                         *)
(***************************************************************************)
\* line 228: whether GetChannels wraps the body in a gzip reader
InflatesBody(c, resp) ==
  c.Config.SupportsGzip /\ resp.contentEncoding = "gzip"

\* lines 196-243 of GetChannels, after the authentication prologue; r is
\* what client.Do returns for the channel-list request
FetchChannels(c, r) ==
  IF ~URLParses(c.PortalURL)
    THEN Fail(c, "failed to create channels request", <<>>, <<>>)
  ELSE LET req == ChannelsRequest(c) IN
    IF r.err
      THEN Fail(c, "channels request failed", <<req>>, <<r>>)
    ELSE LET gz == InflatesBody(c, r)
             body == ReadBody(r, gz)
         IN
      IF body.gzipErr
        THEN [Fail(c, "failed to create gzip reader", <<req>>, <<r>>)
                EXCEPT !.inflated = gz]
      ELSE LET response == DecodeChannelList(body.json) IN
        IF ~response.ok
          THEN [Fail(c, "failed to parse channels response", <<req>>, <<r>>)
                  EXCEPT !.inflated = gz]
        ELSE [Ok(c, <<req>>, <<r>>) EXCEPT !.inflated = gz,
                                           !.channels = response.Channels]

\* a := the prologue's result, then b := the rest of the method run on the
\* client the prologue left; the requests of both, in the order sent
Then(a, b) ==
  [b EXCEPT !.reqs = a.reqs \o b.reqs, !.resps = a.resps \o b.resps]

\* func (c *StalkerClient) GetChannels() ([]Channel, error)
GetChannels(c, hs, r) ==
  LET a == AuthenticateIfNoToken(c, hs)
  IN  IF a.outcome # "ok" THEN a ELSE Then(a, FetchChannels(a.c, r))

\* ReturnsDirectURL with the test inverted
ReturnsDirectURLInverted(c) == c.Config.RequiresCreateLink

\* line 248: "Return direct URL if create_link is not required"
ReturnsDirectURL(c) == ~c.Config.RequiresCreateLink

\* lines 259-292 of GetPlaybackURL
CreateLink(c, channelCmd, r) ==
  IF ~URLParses(c.PortalURL)
    THEN Fail(c, "failed to create playback URL request", <<>>, <<>>)
  ELSE LET req == CreateLinkRequest(c, channelCmd) IN
    IF r.err
      THEN Fail(c, "playback URL request failed", <<req>>, <<r>>)
    ELSE LET response == DecodeCreateLink(ReadBody(r, FALSE).json) IN
      IF ~response.ok
        THEN Fail(c, "failed to parse playback URL response", <<req>>, <<r>>)
      ELSE [Ok(c, <<req>>, <<r>>) EXCEPT !.url = response.Cmd]

\* func (c *StalkerClient) GetPlaybackURL(channelCmd string) (string, error)
GetPlaybackURL(c, channelCmd, hs, r) ==
  IF ReturnsDirectURL(c)
    THEN [Ok(c, <<>>, <<>>) EXCEPT !.url = channelCmd]
  ELSE LET a == AuthenticateIfNoToken(c, hs)
       IN  IF a.outcome # "ok" THEN a ELSE Then(a, CreateLink(a.c, channelCmd, r))

(***************************************************************************)
(* EPG Client.                                                             *)
(***************************************************************************)
\* the zones of the time zone database the model knows
ZoneDatabase == {"UTC", "America/New_York"}

\* LoadLocation that resolves every name
LoadLocationLenient(name) == [ok |-> TRUE, loc |-> name]

\* time.LoadLocation: "" and "UTC" give UTC, an unknown name an error
LoadLocation(name) ==
  [ok |-> name = "" \/ name \in ZoneDatabase,
   loc |-> IF name = "" THEN "UTC" ELSE name]

\* time.Unix(sec, 0): a Time holding the seconds since year 1, in Local
TimeUnix(sec) == [ext |-> Add64(sec, unixToInternal), loc |-> "Local"]
\* Time.In(loc): the same instant, with the location set
In(t, loc) == [t EXCEPT !.loc = loc]
\* Unix that returns the internal seconds, without the offset back to 1970
UnixInternal(t) == t.ext

\* Time.Unix(): the seconds since 1970 of the instant
Unix(t) == Add64(t.ext, internalToUnix)

\* lines 341-342: time.Unix(p.Start, 0).In(loc).Unix()
AdjustEpoch(sec, loc) == Unix(In(TimeUnix(sec), loc))

\* lines 340-343: the loop over epgResp.Js.Programs
AdjustPrograms(programs, loc) ==
  [i \in 1..Len(programs) |->
     [programs[i] EXCEPT !.Start = AdjustEpoch(@, loc),
                         !.Stop = AdjustEpoch(@, loc)]]

\* lines 304-345 of GetEPG
FetchEPG(c, channelID, r) ==
  IF ~URLParses(c.PortalURL)
    THEN Fail(c, "failed to create EPG request", <<>>, <<>>)
  ELSE LET req == EPGRequest(c, channelID) IN
    IF r.err
      THEN Fail(c, "EPG request failed", <<req>>, <<r>>)
    ELSE LET epgResp == DecodeEPG(ReadBody(r, FALSE).json) IN
      IF ~epgResp.ok
        THEN Fail(c, "failed to parse EPG response", <<req>>, <<r>>)
      ELSE LET l == LoadLocation(c.Timezone) IN
        IF ~l.ok
          THEN Fail(c, "invalid timezone", <<req>>, <<r>>)
        ELSE [Ok(c, <<req>>, <<r>>) EXCEPT
                !.programs = AdjustPrograms(epgResp.Programs, l.loc)]

\* func (c *StalkerClient) GetEPG(channelID string) ([]EPGProgram, error)
GetEPG(c, channelID, hs, r) ==
  LET a == AuthenticateIfNoToken(c, hs)
  IN  IF a.outcome # "ok" THEN a ELSE Then(a, FetchEPG(a.c, channelID, r))

(***************************************************************************)
(* Interchange Converter.  The instants it is given lie in [0, 2^31), so   *)
(* their seconds are numbers; the zone rules are those in force for the    *)
(* instants of the model (2022-11-06 to 2024-03-10).                       *)
(***************************************************************************)
\* an int64 in [0, 2^31) as a number: its low 31 bits
ToInt(a) == a[1] + (a[2] % 2^15) * LimbBase

SecondsPerDay == 86400
\* 2023-03-12 07:00:00 UTC and 2023-11-05 06:00:00 UTC: daylight saving time
\* in America/New_York begins and ends
NewYorkDSTBegin == 1678604400
NewYorkDSTEnd == 1699164000

\* the zone's offset from UTC, in seconds, at the instant sec
ZoneOffset(loc, sec) ==
  IF loc = "America/New_York"
    THEN IF sec >= NewYorkDSTBegin /\ sec < NewYorkDSTEnd THEN -14400 ELSE -18000
    ELSE 0

\* the proleptic Gregorian date of the day that is days after 1970-01-01
CivilDate(days) ==
  LET z == days + 719468
      era == z \div 146097
      doe == z - era * 146097
      yoe == (doe - doe \div 1460 + doe \div 36524 - doe \div 146096) \div 365
      doy == doe - (365 * yoe + yoe \div 4 - yoe \div 100)
      mp == (5 * doy + 2) \div 153
      d == doy - (153 * mp + 2) \div 5 + 1
      m == IF mp < 10 THEN mp + 3 ELSE mp - 9
      y == yoe + era * 400 + (IF m <= 2 THEN 1 ELSE 0)
  IN  [year |-> y, month |-> m, day |-> d]

\* n in decimal, zero-padded to two and to four digits
Pad2(n) == IF n < 10 THEN "0" \o ToString(n) ELSE ToString(n)
Pad4(n) ==
  IF n < 10 THEN "000" \o ToString(n)
  ELSE IF n < 100 THEN "00" \o ToString(n)
  ELSE IF n < 1000 THEN "0" \o ToString(n)
  ELSE ToString(n)

\* the "-0700" element of a layout: sign, hours and minutes of the offset
FormatOffset(off) ==
  LET a == IF off < 0 THEN -off ELSE off
  IN  (IF off < 0 THEN "-" ELSE "+") \o Pad2(a \div 3600) \o Pad2((a % 3600) \div 60)

\* Format that writes the UTC wall time beside the zone's offset
FormatUTCWallTime(t) ==
  LET sec == ToInt(Unix(t))
      date == CivilDate(sec \div SecondsPerDay)
      rem == sec % SecondsPerDay
  IN  Pad4(date.year) \o Pad2(date.month) \o Pad2(date.day)
      \o Pad2(rem \div 3600) \o Pad2((rem % 3600) \div 60) \o Pad2(rem % 60)
      \o " " \o FormatOffset(ZoneOffset(t.loc, sec))

\* Time.Format("20060102150405 -0700"): the wall time in t's location, a
\* space, the offset
Format(t) ==
  LET sec == ToInt(Unix(t))
      off == ZoneOffset(t.loc, sec)
      local == sec + off
      date == CivilDate(local \div SecondsPerDay)
      rem == local % SecondsPerDay
  IN  Pad4(date.year) \o Pad2(date.month) \o Pad2(date.day)
      \o Pad2(rem \div 3600) \o Pad2((rem % 3600) \div 60) \o Pad2(rem % 60)
      \o " " \o FormatOffset(off)

\* lines 358-367: the XMLTVProgram of one EPGProgram
XMLTVProgram(p, loc) ==
  [Start |-> Format(In(TimeUnix(p.Start), loc)),
   Stop |-> Format(In(TimeUnix(p.Stop), loc)),
   Channel |-> p.ChannelID, Title |-> p.Name, Desc |-> p.Desc,
   Category |-> p.Category]

\* XMLTVPrograms that puts each new programme in front of the earlier ones
XMLTVProgramsPrepended(programs, loc) ==
  [i \in 1..Len(programs) |-> XMLTVProgram(programs[Len(programs) + 1 - i], loc)]

\* lines 357-368: the loop appending one XMLTVProgram per entry
XMLTVPrograms(programs, loc) ==
  [i \in 1..Len(programs) |-> XMLTVProgram(programs[i], loc)]

\* lines 354-356: the single channel declaration
XMLTVChannels(channelID) == <<[ID |-> channelID, DisplayName |-> channelID]>>

\* func (c *StalkerClient) ConvertEPGToXMLTV(channelID string,
\* programs []EPGProgram) (string, error).  xml.MarshalIndent writes the
\* channel elements, then the programme elements, in slice order, and does
\* not fail on these types
ConvertEPGToXMLTV(c, channelID, programs) ==
  LET l == LoadLocation(c.Timezone) IN
    IF ~l.ok
      THEN Fail(c, "invalid timezone", <<>>, <<>>)
    ELSE [Ok(c, <<>>, <<>>) EXCEPT
            !.doc = [Channels |-> XMLTVChannels(channelID),
                     Programs |-> XMLTVPrograms(programs, l.loc)]]

(***************************************************************************)
(* The environment: what the portal, through the transport, may answer.    *)
(***************************************************************************)
SeqUpTo(S, n) == UNION {[1..k -> S] : k \in 0..n}

Tokens == {"tokA", "tokB"}

HandshakeEnvelope(token) == Envelope(token, JAbsent, JNoArr, JNoArr)

\* answers to a handshake: no answer, a body that is not JSON, a token, an
\* envelope without a token, a token of the wrong JSON type, a compressed body
HandshakeOutcomes ==
  {TransportError, Response(200, "", FALSE, Garbage)}
  \cup {Response(200, "", FALSE, HandshakeEnvelope(JStr(t))) : t \in Tokens}
  \cup {Response(200, "", FALSE, HandshakeEnvelope(JAbsent)),
        Response(200, "", FALSE, HandshakeEnvelope(JNum(Zero64))),
        Response(500, "", FALSE, HandshakeEnvelope(JStr("tokA"))),
        Response(200, "gzip", TRUE, HandshakeEnvelope(JStr("tokA")))}

ChannelObject(id, name, cmd, logo) ==
  [id |-> id, name |-> name, cmd |-> cmd, logo |-> logo]

\* {"id":"1","name":"A","cmd":"http://x","logo":"/l.png"}, and a channel
\* whose cmd needs create_link and that has no logo
ChannelObjects ==
  {ChannelObject(JStr("1"), JStr("A"), JStr("http://x"), JStr("/l.png")),
   ChannelObject(JStr("2"), JStr("B"), JStr("ffrt ch2"), JAbsent)}

\* a channel whose id is a JSON number
ChannelNumericID ==
  ChannelObject(JNum(Zero64), JStr("C"), JStr("http://z"), JStr("/c.png"))

\* the two channels that decode, in the order the portal lists them
TwoChannels ==
  <<ChannelObject(JStr("2"), JStr("B"), JStr("ffrt ch2"), JAbsent),
    ChannelObject(JStr("1"), JStr("A"), JStr("http://x"), JStr("/l.png"))>>

ChannelsEnvelope(channels) == Envelope(JAbsent, JAbsent, channels, JNoArr)

ChannelBodies ==
  {Garbage, ChannelsEnvelope(JNoArr),
   ChannelsEnvelope(JArr(<<ChannelNumericID>>)),
   ChannelsEnvelope(JArr(TwoChannels \o <<ChannelNumericID>>))}
  \cup {ChannelsEnvelope(JArr(s)) : s \in SeqUpTo(ChannelObjects, MaxChannels)}

\* bodies sent compressed, or under a Content-Encoding that does not match
CompressedChannelBodies ==
  {Garbage, ChannelsEnvelope(JArr(<<>>)), ChannelsEnvelope(JArr(TwoChannels))}

ChannelOutcomes ==
  {TransportError}
  \cup {Response(200, "", FALSE, json) : json \in ChannelBodies}
  \cup {Response(200, enc, gz, json) :
          enc \in {"", "gzip"}, gz \in BOOLEAN, json \in CompressedChannelBodies}

CreateLinkEnvelope(cmd) == Envelope(JAbsent, cmd, JNoArr, JNoArr)

CreateLinkOutcomes ==
  {TransportError,
   Response(200, "", FALSE, Garbage),
   Response(200, "", FALSE, CreateLinkEnvelope(JStr("http://stream"))),
   Response(200, "", FALSE, CreateLinkEnvelope(JStr(""))),
   Response(200, "", FALSE, CreateLinkEnvelope(JAbsent)),
   Response(200, "", FALSE, CreateLinkEnvelope(JNum(Zero64))),
   Response(500, "", FALSE, CreateLinkEnvelope(JStr("http://stream")))}

\* answers to the gzip trial of ProbeServer
ProbeGzipOutcomes ==
  {TransportError,
   Response(200, "gzip", TRUE, ChannelsEnvelope(JArr(<<>>))),
   Response(200, "", FALSE, ChannelsEnvelope(JArr(<<>>))),
   Response(500, "", FALSE, Garbage)}

ProgramObject(ch, name, start, stop) ==
  [ch_id |-> ch, name |-> name, start_timestamp |-> start,
   stop_timestamp |-> stop, descr |-> JStr("d"), category |-> JAbsent]

\* a programme of channel 1, and one of channel 2 with extreme epochs that
\* ends before it starts
ProgramObjects ==
  {ProgramObject(JStr("1"), JStr("News"), JNum(Epoch1700000000), JNum(Epoch1700003600)),
   ProgramObject(JStr("2"), JStr("Film"), JNum(EpochMaxInt64), JNum(EpochMinInt64))}

\* programmes whose start is a JSON string, or does not fit an int64
ProgramStringStart ==
  ProgramObject(JStr("1"), JStr("Show"), JStr("1700000000"), JNum(Epoch1700003600))
ProgramBigStart ==
  ProgramObject(JStr("1"), JStr("Show"), JBig, JNum(Epoch1700003600))

EPGEnvelope(programs) == Envelope(JAbsent, JAbsent, JNoArr, programs)

EPGOutcomes ==
  {TransportError,
   Response(200, "", FALSE, Garbage),
   Response(200, "", FALSE, EPGEnvelope(JNoArr)),
   Response(200, "gzip", TRUE, EPGEnvelope(JArr(<<>>))),
   Response(200, "", FALSE, EPGEnvelope(JArr(<<ProgramStringStart>>))),
   Response(200, "", FALSE, EPGEnvelope(JArr(<<ProgramBigStart>>)))}
  \cup {Response(200, "", FALSE, EPGEnvelope(JArr(s))) :
          s \in SeqUpTo(ProgramObjects, MaxPrograms)}

\* arguments the caller passes
Commands == {"", "http://x", "ffrt ch2"}
ChannelIDs == {"1", "2"}

\* 2023-07-22 04:26:40 UTC, in daylight saving time in America/New_York
Epoch1690000000 == <<23168, 25787, 0, 0>>

\* the entries a caller hands to the converter: one of channel "1" in
\* winter, one of channel "2" that starts in summer
EPGPrograms ==
  {[ChannelID |-> "1", Name |-> "News", Start |-> Epoch1700000000,
    Stop |-> Epoch1700003600, Desc |-> "headlines", Category |-> "news"],
   [ChannelID |-> "2", Name |-> "Film", Start |-> Epoch1690000000,
    Stop |-> Epoch1700000000, Desc |-> "", Category |-> "movie"]}

(***************************************************************************)
(* The state machine.                                                      *)
(***************************************************************************)
\* the client the receiver c points to
Self ==
  [PortalURL |-> PortalURL, MAC |-> MAC, Timezone |-> Timezone,
   Token |-> Token, Config |-> Config]

\* func NewStalkerClient(portalURL, mac, timezone string) *StalkerClient
NewStalkerClient(portalURL, mac, timezone) ==
  [PortalURL |-> portalURL, MAC |-> mac, Timezone |-> timezone, Token |-> "",
   Config |-> [SupportsGzip |-> FALSE, RequiresCreateLink |-> FALSE]]

\* the two goroutines of SpecConc
Goroutines == {1, 2}

\* no goroutine has started.  mode: whether the caller serializes the calls;
\* pc: where each goroutine stands; observed: what its line 190 read;
\* pending: the token its Authenticate decoded; stored: the token it wrote;
\* sent: whether it sent a handshake; auth: the Authorization header of its
\* get_all_channels request; order: the goroutines in the order they
\* entered; prior and writer: the value the last write replaced and who
\* wrote
NotStarted(mode) ==
  [mode |-> mode,
   pc |-> [t \in Goroutines |-> "idle"],
   observed |-> [t \in Goroutines |-> ""],
   pending |-> [t \in Goroutines |-> ""],
   stored |-> [t \in Goroutines |-> ""],
   sent |-> [t \in Goroutines |-> FALSE],
   outcome |-> [t \in Goroutines |-> ""],
   auth |-> [t \in Goroutines |-> NoAuth],
   order |-> <<>>, handshakes |-> 0, writes |-> 0,
   prior |-> "", writer |-> 0]

\* the client after construction, before any call
InitClient ==
  \E portalURL \in PortalURLs, mac \in MACs, timezone \in Timezones :
    LET c == NewStalkerClient(portalURL, mac, timezone) IN
      /\ PortalURL = c.PortalURL
      /\ MAC = c.MAC
      /\ Timezone = c.Timezone
      /\ Token = c.Token
      /\ Config = c.Config
      /\ last = [op |-> "NewStalkerClient", arg |-> "", pre |-> c,
                 outcome |-> "ok", err |-> "", reqs |-> <<>>, resps |-> <<>>,
                 inflated |-> FALSE, channels |-> <<>>, url |-> "", programs |-> <<>>,
                 input |-> <<>>, doc |-> [Channels |-> <<>>, Programs |-> <<>>],
                 repeat |-> FALSE]

Init == InitClient /\ conc = NotStarted("sequential")

\* the call op(arg, input) ends with result out: the receiver's fields are
\* what the call left, and last is the call's record.  repeat marks a
\* ProbeServer that directly follows a ProbeServer and got the same two
\* answers
ReturnWith(op, arg, input, out) ==
  /\ PortalURL' = out.c.PortalURL
  /\ MAC' = out.c.MAC
  /\ Timezone' = out.c.Timezone
  /\ Token' = out.c.Token
  /\ Config' = out.c.Config
  /\ last' = [op |-> op, arg |-> arg, pre |-> Self,
              outcome |-> out.outcome, err |-> out.err,
              reqs |-> out.reqs, resps |-> out.resps,
              inflated |-> out.inflated, channels |-> out.channels, url |-> out.url,
              programs |-> out.programs,
              input |-> input, doc |-> out.doc,
              repeat |-> /\ op = "ProbeServer"
                         /\ last.op = "ProbeServer"
                         /\ last.resps = out.resps]
  /\ UNCHANGED conc

\* the end of a call that takes no slice
Return(op, arg, out) == ReturnWith(op, arg, <<>>, out)

\* the answer to a request that is never sent is not drawn: it is fixed
Unsent(sent, outcome) == ~sent => outcome = TransportError

SentHandshake(out) == \E i \in 1..Len(out.reqs) : out.reqs[i].action = "handshake"
SentAction(out) == \E i \in 1..Len(out.reqs) : out.reqs[i].action # "handshake"

CallAuthenticate ==
  \E hs \in HandshakeOutcomes :
    \E out \in {Authenticate(Self, hs)} :
      /\ Unsent(SentHandshake(out), hs)
      /\ Return("Authenticate", "", out)

CallProbeServer ==
  \E g \in ProbeGzipOutcomes, l \in CreateLinkOutcomes :
    \E out \in {ProbeServer(Self, g, l)} :
      /\ Unsent(SentAction(out), g)
      /\ Unsent(SentAction(out), l)
      /\ Return("ProbeServer", "", out)

\* whether a call sends the handshake does not depend on the answer to the
\* request that follows it, so hs is settled before r is drawn
CallGetChannels ==
  \E hs \in HandshakeOutcomes :
    /\ Unsent(SentHandshake(GetChannels(Self, hs, TransportError)), hs)
    /\ \E r \in ChannelOutcomes :
         \E out \in {GetChannels(Self, hs, r)} :
           /\ Unsent(SentAction(out), r)
           /\ Return("GetChannels", "", out)

CallGetPlaybackURL ==
  \E channelCmd \in Commands, hs \in HandshakeOutcomes :
    /\ Unsent(SentHandshake(GetPlaybackURL(Self, channelCmd, hs, TransportError)), hs)
    /\ \E r \in CreateLinkOutcomes :
         \E out \in {GetPlaybackURL(Self, channelCmd, hs, r)} :
           /\ Unsent(SentAction(out), r)
           /\ Return("GetPlaybackURL", channelCmd, out)

CallGetEPG ==
  \E channelID \in ChannelIDs, hs \in HandshakeOutcomes :
    /\ Unsent(SentHandshake(GetEPG(Self, channelID, hs, TransportError)), hs)
    /\ \E r \in EPGOutcomes :
         \E out \in {GetEPG(Self, channelID, hs, r)} :
           /\ Unsent(SentAction(out), r)
           /\ Return("GetEPG", channelID, out)

\* c.ConvertEPGToXMLTV(channelID, programs)
CallConvertEPGToXMLTV ==
  \E channelID \in ChannelIDs, programs \in SeqUpTo(EPGPrograms, MaxPrograms) :
    \E out \in {ConvertEPGToXMLTV(Self, channelID, programs)} :
      ReturnWith("ConvertEPGToXMLTV", channelID, programs, out)

Next ==
  \/ CallAuthenticate
  \/ CallProbeServer
  \/ CallGetChannels
  \/ CallGetPlaybackURL
  \/ CallGetEPG
  \/ CallConvertEPGToXMLTV

Spec == Init /\ [][Next]_vars

(***************************************************************************)
(* Two GetChannels calls on one client, as two goroutines.  The client has *)
(* no lock: c.Token is read at line 190 and line 207 and written at line   *)
(* 142 with plain loads and stores.  A string is two words, pointer and    *)
(* length.  A read that no synchronization orders after a write of another *)
(* goroutine may return the value before the write; a read that overlaps   *)
(* the write may return either value or, when the lengths differ, a        *)
(* pointer and a length of different strings: Torn, whose bytes cannot be  *)
(* read.  When the caller serializes the calls, the second starts after    *)
(* the first has returned and reads what memory holds.                     *)
(***************************************************************************)
Torn == "<torn>"

\* the goroutines other than t that are between the two stores of line 142
Storing(t) == {u \in Goroutines \ {t} : conc.pc[u] = "storing"}

\* Observe under which a serialized call, too, may read the value before
\* the last write
ObserveStale(t) == {Token, conc.prior}

\* what a load of c.Token by goroutine t may return
Observe(t) ==
  IF conc.mode = "serialized"
    THEN {Token}
  ELSE {Token}
       \cup (IF conc.writer \in Goroutines \ {t} THEN {conc.prior} ELSE {})
       \cup UNION {{conc.pending[u]}
                    \cup (IF Len(conc.pending[u]) # Len(Token) THEN {Torn} ELSE {})
                    : u \in Storing(t)}

\* what memory may hold after goroutine t's store of line 142
Stored(t) ==
  {conc.pending[t]}
  \cup UNION {{conc.pending[u]}
               \cup (IF Len(conc.pending[u]) # Len(conc.pending[t])
                       THEN {Torn} ELSE {})
               : u \in Storing(t)}

\* a fault in one goroutine ends the process
Running == \A t \in Goroutines : conc.pc[t] # "fault"

\* goroutine t calls c.GetChannels(); a serializing caller waits for the
\* other call to return
GetChannelsEnter(t) ==
  /\ Running
  /\ conc.pc[t] = "idle"
  /\ conc.mode = "serialized"
     => \A u \in Goroutines \ {t} : conc.pc[u] \in {"idle", "done"}
  /\ conc' = [conc EXCEPT !.pc[t] = "check", !.order = Append(@, t)]
  /\ UNCHANGED <<PortalURL, MAC, Timezone, Token, Config, last>>

\* line 190: if c.Token == ""
GetChannelsCheckToken(t) ==
  /\ Running
  /\ conc.pc[t] = "check"
  /\ \E tok \in Observe(t) :
       conc' = [conc EXCEPT
                  !.observed[t] = tok,
                  !.pc[t] = IF NeedsAuthenticate([Self EXCEPT !.Token = tok])
                              THEN "authenticate" ELSE "fetch"]
  /\ UNCHANGED <<PortalURL, MAC, Timezone, Token, Config, last>>

\* lines 113-141 of Authenticate: build the handshake request, send it,
\* decode the answer
AuthenticateDo(t) ==
  /\ Running
  /\ conc.pc[t] = "authenticate"
  /\ \E hs \in HandshakeOutcomes :
       \E out \in {Authenticate(Self, hs)} :
         /\ Unsent(SentHandshake(out), hs)
         /\ conc' = [conc EXCEPT
                       !.sent[t] = SentHandshake(out),
                       !.handshakes = @ + Len(out.reqs),
                       !.pending[t] = IF out.outcome = "ok" THEN out.c.Token ELSE "",
                       !.outcome[t] = IF out.outcome = "ok" THEN "" ELSE out.outcome,
                       !.pc[t] = IF out.outcome = "ok" THEN "store" ELSE "done"]
  /\ UNCHANGED <<PortalURL, MAC, Timezone, Token, Config, last>>

\* line 142, c.Token = response.Js.Token: the first word is stored
AuthenticateStoreBegin(t) ==
  /\ Running
  /\ conc.pc[t] = "store"
  /\ conc' = [conc EXCEPT !.pc[t] = "storing"]
  /\ UNCHANGED <<PortalURL, MAC, Timezone, Token, Config, last>>

\* line 142: the second word is stored; Authenticate returns nil
AuthenticateStoreEnd(t) ==
  /\ Running
  /\ conc.pc[t] = "storing"
  /\ Token' \in Stored(t)
  /\ conc' = [conc EXCEPT
                !.stored[t] = conc.pending[t],
                !.writes = @ + 1,
                !.prior = Token,
                !.writer = t,
                !.pc[t] = "fetch"]
  /\ UNCHANGED <<PortalURL, MAC, Timezone, Config, last>>

\* lines 196-243 of GetChannels: line 207 loads c.Token for the
\* Authorization header; the bytes of a torn string cannot be copied
GetChannelsFetch(t) ==
  /\ Running
  /\ conc.pc[t] = "fetch"
  /\ \E tok \in Observe(t) :
       IF tok = Torn
         THEN conc' = [conc EXCEPT !.pc[t] = "fault", !.outcome[t] = "panic"]
       ELSE \E r \in ChannelOutcomes :
              \E out \in {FetchChannels([Self EXCEPT !.Token = tok], r)} :
                /\ Unsent(SentAction(out), r)
                /\ conc' = [conc EXCEPT
                              !.pc[t] = "done",
                              !.outcome[t] = out.outcome,
                              !.auth[t] = IF out.reqs = <<>> THEN NoAuth
                                          ELSE out.reqs[1].auth]
  /\ UNCHANGED <<PortalURL, MAC, Timezone, Token, Config, last>>

InitConc ==
  /\ InitClient
  /\ \E mode \in {"serialized", "concurrent"} : conc = NotStarted(mode)

NextConc ==
  \E t \in Goroutines :
    \/ GetChannelsEnter(t)
    \/ GetChannelsCheckToken(t)
    \/ AuthenticateDo(t)
    \/ AuthenticateStoreBegin(t)
    \/ AuthenticateStoreEnd(t)
    \/ GetChannelsFetch(t)

SpecConc == InitConc /\ [][NextConc]_vars

(***************************************************************************)
(* Properties.  Each is a predicate on the record of the most recent call  *)
(* (last) and the client the call left.                                    *)
(***************************************************************************)
\* the most recent call's last request and the transport's answer to it
LastReq == last.reqs[Len(last.reqs)]
LastResp == last.resps[Len(last.resps)]

\* the positions of the handshake requests among the call's requests
Handshakes == {i \in 1..Len(last.reqs) : last.reqs[i].action = "handshake"}

\* the call got an answer to its own request for the given action
Answered(action) ==
  /\ Len(last.reqs) >= 1
  /\ LastReq.action = action
  /\ ~LastResp.err

\* a JSON string or an absent key, as the Go string it stands for
WireString(v) == IF v.t = "string" THEN v.s ELSE ""
WireInt64(v) == IF v.t = "number" THEN v.n ELSE Zero64
IsStringOrAbsent(v) == v.t \in {"string", "absent"}
IsInt64OrAbsent(v) == v.t \in {"number", "absent"}

\* the body arrives as plain JSON text, with no Content-Encoding
PlainObject(r) == ~r.gz /\ r.contentEncoding = "" /\ r.json.kind = "object"

\* C1: with RequiresCreateLink false, GetPlaybackURL(cmd) of a non-empty
\* cmd returns cmd and a nil error, hands no request to the transport, and
\* leaves Token and Config as they were.
C1_DirectURL ==
  (/\ last.op = "GetPlaybackURL"
   /\ ~last.pre.Config.RequiresCreateLink
   /\ last.arg # "")
  => /\ last.outcome = "ok"
     /\ last.url = last.arg
     /\ last.reqs = <<>>
     /\ Token = last.pre.Token
     /\ Config = last.pre.Config

C1_Witness ==
  /\ last.op = "GetPlaybackURL"
  /\ ~last.pre.Config.RequiresCreateLink
  /\ last.pre.Config.SupportsGzip
  /\ last.pre.Token = ""
  /\ last.arg = "ffrt ch2"
  /\ last.url = "ffrt ch2"

\* a handshake answer whose body is an envelope with a string js.token
ValidHandshake(r) ==
  ~r.err /\ ~r.gz /\ r.json.kind = "object" /\ r.json.token.t = "string"

\* C2: on a valid handshake response Authenticate returns nil, Token is the
\* string of js.token, and PortalURL, MAC, Timezone and Config are unchanged.
C2_AuthenticateStoresToken ==
  (/\ last.op = "Authenticate"
   /\ Len(last.resps) = 1
   /\ ValidHandshake(last.resps[1]))
  => /\ last.outcome = "ok"
     /\ Token = last.resps[1].json.token.s
     /\ PortalURL = last.pre.PortalURL
     /\ MAC = last.pre.MAC
     /\ Timezone = last.pre.Timezone
     /\ Config = last.pre.Config

C2_Witness ==
  /\ last.op = "Authenticate"
  /\ Len(last.resps) = 1
  /\ ValidHandshake(last.resps[1])
  /\ last.pre.Token = "tokA"
  /\ Token = "tokB"
  /\ Config.SupportsGzip

\* the most recent call is one that requires authentication
RequiresAuth ==
  \/ last.op \in {"GetChannels", "GetEPG"}
  \/ last.op = "GetPlaybackURL" /\ last.pre.Config.RequiresCreateLink

\* every handshake request of the call precedes its other requests
HandshakeFirst ==
  \A h \in Handshakes : \A i \in 1..Len(last.reqs) :
    last.reqs[i].action # "handshake" => h < i

\* C3 as stated: a call that requires authentication sends exactly one
\* handshake, before its own request, when Token is empty on entry, and no
\* handshake, leaving Token, when it is not.
C3_Original ==
  RequiresAuth =>
    IF last.pre.Token = ""
      THEN Cardinality(Handshakes) = 1 /\ HandshakeFirst
      ELSE Handshakes = {} /\ Token = last.pre.Token

\* C3, amended: with Token empty on entry the call sends exactly one
\* handshake, before its own request, provided the handshake request can be
\* built from PortalURL; if it cannot, the call sends nothing and returns
\* the error.  With Token non-empty it sends no handshake and leaves Token.
C3_OneHandshake ==
  RequiresAuth =>
    IF last.pre.Token = ""
      THEN IF URLParses(last.pre.PortalURL)
             THEN Cardinality(Handshakes) = 1 /\ HandshakeFirst
             ELSE last.reqs = <<>> /\ last.outcome = "error"
      ELSE Handshakes = {} /\ Token = last.pre.Token

C3_Witness ==
  /\ last.op = "GetPlaybackURL"
  /\ last.pre.Config.RequiresCreateLink
  /\ last.pre.Token = ""
  /\ Len(last.reqs) = 2
  /\ last.reqs[1].action = "handshake"
  /\ last.reqs[2].action = "create_link"
  /\ last.outcome = "ok"

\* the most recent call is one of the four operations that return an error
Fallible ==
  last.op \in {"Authenticate", "GetChannels", "GetPlaybackURL", "GetEPG"}

\* C4 as stated: whenever one of the four operations returns an error, Token
\* and Config are what they were before the call.
C4_Original ==
  (Fallible /\ last.outcome = "error")
  => Token = last.pre.Token /\ Config = last.pre.Config

\* C4, amended: whenever one of the four operations returns an error, Config
\* is what it was before the call, and so is Token, except that a
\* GetChannels, GetPlaybackURL or GetEPG entered with an empty Token whose
\* implicit handshake succeeded keeps the handshake's token although the
\* call failed afterwards.
C4_ErrorLeavesState ==
  (Fallible /\ last.outcome = "error")
  => /\ Config = last.pre.Config
     /\ \/ Token = last.pre.Token
        \/ /\ last.op # "Authenticate"
           /\ last.pre.Token = ""
           /\ Len(last.resps) >= 1
           /\ last.reqs[1].action = "handshake"
           /\ ValidHandshake(last.resps[1])
           /\ Token = last.resps[1].json.token.s

C4_Witness ==
  /\ last.op = "GetEPG"
  /\ last.outcome = "error"
  /\ last.err = "invalid timezone"
  /\ last.pre.Token = ""
  /\ Token = "tokB"
  /\ Config.RequiresCreateLink

\* a create_link answer whose body is an envelope with a non-empty js.cmd
HasCmd(r) ==
  ~r.gz /\ r.json.kind = "object" /\ r.json.cmd.t = "string" /\ r.json.cmd.s # ""

\* C5 as stated: after a ProbeServer that got both answers, SupportsGzip is
\* true iff the gzip trial's answer carried Content-Encoding gzip, and
\* RequiresCreateLink is true iff the create_link trial's answer was a 200
\* with a non-empty js.cmd, whatever Config was before.
C5_Original ==
  (/\ last.op = "ProbeServer"
   /\ Len(last.resps) = 2
   /\ ~last.resps[1].err
   /\ ~last.resps[2].err)
  => /\ Config.SupportsGzip <=> (last.resps[1].contentEncoding = "gzip")
     /\ Config.RequiresCreateLink <=>
          (last.resps[2].status = 200 /\ HasCmd(last.resps[2]))

\* C6: a ProbeServer that directly follows a ProbeServer and gets the same
\* two answers leaves Config as the first one left it.
C6_ProbeIdempotent ==
  (last.op = "ProbeServer" /\ last.repeat) => Config = last.pre.Config

C6_Witness ==
  /\ last.op = "ProbeServer"
  /\ last.repeat
  /\ last.outcome = "ok"
  /\ last.resps[1].contentEncoding = "gzip"
  /\ HasCmd(last.resps[2])
  /\ Config.SupportsGzip
  /\ Config.RequiresCreateLink

C8_Original ==
  (last.op = "GetChannels" /\ Answered("get_all_channels"))
  => /\ last.inflated <=> (LastResp.contentEncoding = "gzip")
     /\ LastReq.gzip <=> last.pre.Config.SupportsGzip
     /\ LastReq.acceptEncoding <=> last.pre.Config.SupportsGzip

\* the Channel a js.channels element stands for, field by field
WireChannel(o) ==
  [ID |-> WireString(o.id), Name |-> WireString(o.name),
   Cmd |-> WireString(o.cmd), Logo |-> WireString(o.logo)]

WellTypedChannel(o) ==
  /\ IsStringOrAbsent(o.id)
  /\ IsStringOrAbsent(o.name)
  /\ IsStringOrAbsent(o.cmd)
  /\ IsStringOrAbsent(o.logo)

\* C9: a GetChannels whose request was answered with a plain envelope of
\* well-typed channels returns nil; and whenever GetChannels returns nil,
\* it returns the records of js.channels, as many, in the delivered order,
\* with id, name, cmd and logo verbatim (an empty array gives an empty
\* sequence).
C9_ChannelsVerbatim ==
  (last.op = "GetChannels" /\ Answered("get_all_channels"))
  => LET items == LastResp.json.channels.items IN
     /\ (/\ PlainObject(LastResp)
         /\ \A i \in 1..Len(items) : WellTypedChannel(items[i]))
        => last.outcome = "ok"
     /\ last.outcome = "ok"
        => /\ Len(last.channels) = Len(items)
           /\ \A i \in 1..Len(items) : last.channels[i] = WireChannel(items[i])

C9_Witness ==
  /\ last.op = "GetChannels"
  /\ Answered("get_all_channels")
  /\ last.outcome = "ok"
  /\ Len(last.channels) = 2
  /\ last.channels[1] = [ID |-> "2", Name |-> "B", Cmd |-> "ffrt ch2", Logo |-> ""]
  /\ last.channels[2] = [ID |-> "1", Name |-> "A", Cmd |-> "http://x", Logo |-> "/l.png"]

WellTypedProgram(o) ==
  /\ IsStringOrAbsent(o.ch_id)
  /\ IsStringOrAbsent(o.name)
  /\ IsInt64OrAbsent(o.start_timestamp)
  /\ IsInt64OrAbsent(o.stop_timestamp)
  /\ IsStringOrAbsent(o.descr)
  /\ IsStringOrAbsent(o.category)

\* C10: with a resolvable timezone, a GetEPG whose request was answered
\* with a plain envelope of well-typed programmes returns nil; and whenever
\* GetEPG returns nil, it returns as many entries as js.programs has, in the
\* delivered order, each with the start and stop epoch the server delivered.
C10_EPGOrderAndEpochs ==
  (last.op = "GetEPG" /\ Answered("get_epg"))
  => LET items == LastResp.json.programs.items IN
     /\ (/\ Timezone \in ZoneDatabase
         /\ PlainObject(LastResp)
         /\ \A i \in 1..Len(items) : WellTypedProgram(items[i]))
        => last.outcome = "ok"
     /\ last.outcome = "ok"
        => /\ Len(last.programs) = Len(items)
           /\ \A i \in 1..Len(items) :
                /\ last.programs[i].Start = WireInt64(items[i].start_timestamp)
                /\ last.programs[i].Stop = WireInt64(items[i].stop_timestamp)
                /\ last.programs[i].ChannelID = WireString(items[i].ch_id)
                /\ last.programs[i].Name = WireString(items[i].name)

C10_Witness ==
  /\ last.op = "GetEPG"
  /\ last.outcome = "ok"
  /\ Timezone = "America/New_York"
  /\ Len(last.programs) = 2
  /\ last.programs[1].Start = EpochMaxInt64
  /\ last.programs[1].Stop = EpochMinInt64
  /\ last.programs[2].Start = Epoch1700000000
  /\ last.programs[2].Stop = Epoch1700003600

\* the configured timezone names no zone of the database
Unresolvable(tz) == tz = "Mars/Olympus"

\* C11: for every channel id and every slice, ConvertEPGToXMLTV returns an
\* error exactly when the configured timezone cannot be resolved; and a
\* GetEPG whose request was answered with a plain envelope of well-typed
\* programmes returns an error, the timezone error, under exactly the same
\* condition.
C11_TimezoneErrors ==
  /\ last.op = "ConvertEPGToXMLTV"
     => /\ last.outcome = "error" <=> Unresolvable(last.pre.Timezone)
        /\ last.outcome = "error" => last.err = "invalid timezone"
  /\ (/\ last.op = "GetEPG"
      /\ Answered("get_epg")
      /\ PlainObject(LastResp)
      /\ \A i \in 1..Len(LastResp.json.programs.items) :
           WellTypedProgram(LastResp.json.programs.items[i]))
     => /\ last.outcome = "error" <=> Unresolvable(last.pre.Timezone)
        /\ last.outcome = "error" => last.err = "invalid timezone"

C11_Witness ==
  /\ last.op = "ConvertEPGToXMLTV"
  /\ last.pre.Timezone = "Mars/Olympus"
  /\ Len(last.input) = 2
  /\ last.outcome = "error"
  /\ last.err = "invalid timezone"

\* C12: a ConvertEPGToXMLTV that returns nil yields a document with exactly
\* one channel declaration, whose id and display name are the channelID
\* argument, and exactly one programme per entry of the slice, the i-th
\* made from the i-th entry; and every ConvertEPGToXMLTV hands no request
\* to the transport and leaves every field of the client as it was.
C12_OneProgrammePerEntry ==
  last.op = "ConvertEPGToXMLTV"
  => /\ last.reqs = <<>>
     /\ Self = last.pre
     /\ last.outcome = "ok"
        => /\ last.doc.Channels = <<[ID |-> last.arg, DisplayName |-> last.arg]>>
           /\ Len(last.doc.Programs) = Len(last.input)
           /\ \A i \in 1..Len(last.input) :
                /\ last.doc.Programs[i].Title = last.input[i].Name
                /\ last.doc.Programs[i].Desc = last.input[i].Desc
                /\ last.doc.Programs[i].Category = last.input[i].Category
                /\ last.doc.Programs[i].Channel = last.input[i].ChannelID

C12_Witness ==
  /\ last.op = "ConvertEPGToXMLTV"
  /\ last.outcome = "ok"
  /\ Token # ""
  /\ Len(last.input) = 2
  /\ last.input[1].Name = "Film"
  /\ last.input[2].Name = "News"
  /\ last.doc.Programs[1].Title = "Film"
  /\ last.doc.Programs[2].Title = "News"

\* the stamp of an instant of the model in a zone of the database, from the
\* calendar
Stamp(sec, tz) ==
  IF tz = "UTC"
    THEN CASE sec = Epoch1690000000 -> "20230722042640 +0000"
           [] sec = Epoch1700000000 -> "20231114221320 +0000"
           [] sec = Epoch1700003600 -> "20231114231320 +0000"
    ELSE CASE sec = Epoch1690000000 -> "20230722002640 -0400"
           [] sec = Epoch1700000000 -> "20231114171320 -0500"
           [] sec = Epoch1700003600 -> "20231114181320 -0500"

\* C13 as stated: the start and stop stamps of epoch 1700000000 are
\* "20231114222640 +0000" under UTC and "20231114172640 -0500" under
\* America/New_York.
C13_Original ==
  (last.op = "ConvertEPGToXMLTV" /\ last.outcome = "ok")
  => \A i \in 1..Len(last.input) :
       last.input[i].Start = Epoch1700000000
       => last.doc.Programs[i].Start =
            IF last.pre.Timezone = "UTC"
              THEN "20231114222640 +0000"
              ELSE "20231114172640 -0500"

\* C13: every start and stop stamp of a document is the wall time of the
\* epoch in the configured timezone, written as 14 digits YYYYMMDDHHmmss, a
\* space, and the signed four-digit offset; epoch 1700000000 yields
\* "20231114221320 +0000" under UTC and "20231114171320 -0500" under
\* America/New_York.
C13_Stamps ==
  (last.op = "ConvertEPGToXMLTV" /\ last.outcome = "ok")
  => \A i \in 1..Len(last.input) :
       /\ last.doc.Programs[i].Start = Stamp(last.input[i].Start, last.pre.Timezone)
       /\ last.doc.Programs[i].Stop = Stamp(last.input[i].Stop, last.pre.Timezone)
       /\ Len(last.doc.Programs[i].Start) = 20
       /\ Len(last.doc.Programs[i].Stop) = 20

C13_Witness ==
  /\ last.op = "ConvertEPGToXMLTV"
  /\ last.outcome = "ok"
  /\ last.pre.Timezone = "America/New_York"
  /\ Len(last.input) = 2
  /\ last.input[1].Start = Epoch1700000000
  /\ last.doc.Programs[1].Start = "20231114171320 -0500"
  /\ last.input[2].Start = Epoch1690000000
  /\ last.doc.Programs[2].Start = "20230722002640 -0400"

\* C14 as stated: every request sent for an action other than the
\* handshake, ProbeServer's two trial requests included, carries an
\* Authorization header with the current bearer token; the handshake request
\* carries none.
C14_Original ==
  \A i \in 1..Len(last.reqs) :
    IF last.reqs[i].action = "handshake"
      THEN last.reqs[i].auth = NoAuth
      ELSE last.reqs[i].auth = Bearer(Token)

\* both calls have returned
Finished == \A t \in Goroutines : conc.pc[t] = "done"

\* C15 as stated: when the two GetChannels calls on a client with an empty
\* Token are serialized, exactly one handshake request is sent.
C15_Original ==
  (conc.mode = "serialized" /\ Finished) => conc.handshakes = 1

\* C15: nothing in the client keeps a call from handshaking while another
\* does: every call that read an empty Token at line 190 sends its own
\* handshake request when one can be built, and every write of Token
\* follows the writer's own handshake.  When the two calls are serialized,
\* exactly one handshake request is sent if the first call stored a
\* non-empty token, two if its handshake failed or stored an empty token,
\* and none if no request can be built from PortalURL.
C15_HandshakesDependOnSerialization ==
  /\ \A t \in Goroutines :
       (/\ conc.pc[t] \in {"store", "storing", "fetch", "done", "fault"}
        /\ conc.observed[t] = ""
        /\ URLParses(PortalURL))
       => conc.sent[t]
  /\ conc.handshakes = Cardinality({t \in Goroutines : conc.sent[t]})
  /\ conc.writes <= conc.handshakes
  /\ (conc.mode = "serialized" /\ Finished)
     => conc.handshakes =
          IF ~URLParses(PortalURL) THEN 0
          ELSE IF conc.stored[conc.order[1]] # "" THEN 1
          ELSE 2

C15_Witness ==
  /\ conc.mode = "concurrent"
  /\ Finished
  /\ \A t \in Goroutines : conc.observed[t] = ""
  /\ conc.handshakes = 2
  /\ conc.writes = 2
  /\ Token \in Tokens

\* C16: Authenticate, GetChannels, GetPlaybackURL, GetEPG and
\* ConvertEPGToXMLTV leave both Config flags as they were, whatever the
\* server answers; ProbeServer leaves Token as it was and sends no handshake
\* request.
C16_ProfileWrittenOnlyByProbe ==
  /\ last.op \in {"Authenticate", "GetChannels", "GetPlaybackURL", "GetEPG",
                  "ConvertEPGToXMLTV"}
     => Config = last.pre.Config
  /\ last.op = "ProbeServer"
     => /\ Token = last.pre.Token
        /\ Handshakes = {}

C16_Witness ==
  /\ last.op = "GetChannels"
  /\ ~last.pre.Config.SupportsGzip
  /\ Answered("get_all_channels")
  /\ LastResp.contentEncoding = "gzip"
  /\ ~Config.SupportsGzip

\* C17: once SupportsGzip or RequiresCreateLink is true, no operation sets
\* it back to false.
C17_FlagsMonotone ==
  [][/\ Config.SupportsGzip => Config'.SupportsGzip
     /\ Config.RequiresCreateLink => Config'.RequiresCreateLink]_vars

C17_Witness ==
  /\ last.op = "ProbeServer"
  /\ last.pre.Config.SupportsGzip
  /\ last.pre.Config.RequiresCreateLink
  /\ Len(last.resps) = 2
  /\ ~last.resps[1].err
  /\ last.resps[1].contentEncoding = ""
  /\ ~last.resps[2].err
  /\ ~HasCmd(last.resps[2])
  /\ Config.SupportsGzip
  /\ Config.RequiresCreateLink

\* C18 as stated: after an Authenticate that returns nil, Token is not
\* empty; and every request that GetChannels, GetEPG or GetPlaybackURL
\* sends after its own handshake carries a non-empty bearer token.
C18_Original ==
  /\ (last.op = "Authenticate" /\ last.outcome = "ok") => Token # ""
  /\ last.op \in {"GetChannels", "GetEPG", "GetPlaybackURL"}
     => \A i \in 1..Len(last.reqs) :
          (last.reqs[i].action # "handshake" /\ Handshakes # {})
          => last.reqs[i].auth # Bearer("")

\* C19 as stated: in every document of ConvertEPGToXMLTV, each programme's
\* channel attribute is the id of a channel declaration of the document.
C19_Original ==
  (last.op = "ConvertEPGToXMLTV" /\ last.outcome = "ok")
  => \A i \in 1..Len(last.doc.Programs) :
       \E j \in 1..Len(last.doc.Channels) :
         last.doc.Programs[i].Channel = last.doc.Channels[j].ID

====
